---------------------------- MODULE Spec2Model ----------------------------
(***************************************************************************)
(* A model of libyaml-rust: the event stream and the document stream that  *)
(* src/yaml/parser.rs builds over the libyaml engine, the reader bridge,   *)
(* and the document tree and its iterators of src/document.rs.             *)
(*                                                                         *)
(* The engine itself (libyaml, reached through ffi) is not part of the     *)
(* repository: it is modelled as the collaborator the wrapper calls, by    *)
(* what its call surface returns (the definitions named yaml_* and the     *)
(* Engine* helpers).  The input text is abstract: a list of documents,     *)
(* each a flow sequence, a flow mapping or a single scalar, and possibly   *)
(* one place where the engine reports a failure.                           *)
(***************************************************************************)
EXTENDS Integers, Sequences, FiniteSets, TLC

VARIABLES
    input,      \* the text given to the parsers: [docs, fails, failAt, failKind]
    reader,     \* the caller's Reader behind YamlIoParser: [script, delivered, reads]
                \* (script: what its first reads return)
    stream,     \* per parser: "parser" | "events" | "documents", and
                \* "events dead" | "documents dead" after a panic or an abort
                \* "events dropped" | "documents dropped" once discarded
    engine,     \* per parser: the engine's yaml_parser_t
    results,    \* per parser: the values next_event / next_document returned
    documents,  \* every YamlDocument box allocated by parser_load
    iters,      \* the live YamlSequenceIter / YamlMappingIter values
    views,      \* what the caller's is_empty() / root() calls returned
    ops,        \* the engine primitives the last operation called, in order
    cbLog       \* the handle_reader_cb calls made by the last operation

vars == <<input, reader, stream, engine, results, documents, iters, views, ops,
          cbLog>>

(***************************************************************************)
(* Bounds of the model.                                                    *)
(***************************************************************************)
MaxLen == 3      \* items of a flow sequence
MaxPairs == 2    \* pairs of a flow mapping
MaxDocs == 2     \* documents of a stream
MaxCalls == 12   \* next_event calls on one stream
MaxDocCalls == 3 \* next_document calls on one stream
MaxChunk == 2    \* bytes one read of the caller's Reader delivers at most
MaxScript == 2   \* reads of the caller's Reader that are scripted
MaxIters == 2    \* iterators alive at once
MaxViews == 2    \* is_empty() / root() calls of the caller

Parsers == {"byte", "io"}

Min(a, b) == IF a < b THEN a ELSE b

SeqsUpTo(S, n) == UNION {[1..k -> S] : k \in 0..n}

(***************************************************************************)
(* The input.                                                              *)
(***************************************************************************)
Scalars == {ToString(i) : i \in 1..MaxLen}
Keys == {"a", "b"}
Vals == {"1", "2"}

\* Every flow sequence [a1, ..., an] of scalars, n <= MaxLen.
FlowSeqs == {[kind |-> "seq", items |-> s] : s \in SeqsUpTo(Scalars, MaxLen)}

\* Every flow mapping {k1: v1, ..., kn: vn}, n <= MaxPairs; items holds
\* k1, v1, ..., kn, vn.
FlowMaps ==
    {[kind |-> "map", items |-> s] :
        s \in UNION {{t \in [1..(2 * k) -> Keys \cup Vals] :
                        \A i \in 1..(2 * k) :
                            IF i % 2 = 1 THEN t[i] \in Keys ELSE t[i] \in Vals}
                     : k \in 0..MaxPairs}}

KeyName(i) == IF i % 2 = 1 THEN "a" ELSE "b"

\* One document of each shape and size: [1, ..., n], {a: 1, b: 2, ...}, 1.
SkeletonDocs ==
    {[kind |-> "seq", items |-> [i \in 1..n |-> ToString(i)]] : n \in 0..MaxLen}
    \cup {[kind |-> "map",
           items |-> [i \in 1..(2 * n) |->
                        IF i % 2 = 1 THEN KeyName((i + 1) \div 2)
                        ELSE ToString(i \div 2)]] : n \in 0..MaxPairs}
    \cup {[kind |-> "scalar", items |-> <<"1">>]}

\* The document `---`: an explicit document start and no content, for which
\* the engine's parser produces a plain scalar with empty text.
BareDoc == [kind |-> "scalar", items |-> <<"">>]

\* The documents of one item, and the document without content.
SmallDocs ==
    {[kind |-> "seq", items |-> <<"1">>],
     [kind |-> "map", items |-> <<"a", "1">>],
     [kind |-> "scalar", items |-> <<"1">>],
     BareDoc}

\* The texts: the empty stream, one document of any shape and size, or up to
\* MaxDocs documents of one item.
Streams == SeqsUpTo(SkeletonDocs, 1) \cup SeqsUpTo(SmallDocs, MaxDocs)

\* The error codes a yaml_parser_t records when parsing or composing fails.
FailKinds ==
    {"YAML_MEMORY_ERROR", "YAML_READER_ERROR", "YAML_SCANNER_ERROR",
     "YAML_PARSER_ERROR", "YAML_COMPOSER_ERROR"}

NoFailure == [fails |-> FALSE, failAt |-> 0, failKind |-> "YAML_NO_ERROR"]

(***************************************************************************)
(* The engine: the events of a text.                                       *)
(***************************************************************************)
Ev(t, v) == [type |-> t, value |-> v]

NoEventRec == Ev("YAML_NO_EVENT", "")

ContentEvents(d) ==
    CASE d.kind = "seq" ->
            <<Ev("YAML_SEQUENCE_START_EVENT", "")>>
            \o [i \in 1..Len(d.items) |-> Ev("YAML_SCALAR_EVENT", d.items[i])]
            \o <<Ev("YAML_SEQUENCE_END_EVENT", "")>>
      [] d.kind = "map" ->
            <<Ev("YAML_MAPPING_START_EVENT", "")>>
            \o [i \in 1..Len(d.items) |-> Ev("YAML_SCALAR_EVENT", d.items[i])]
            \o <<Ev("YAML_MAPPING_END_EVENT", "")>>
      [] OTHER -> <<Ev("YAML_SCALAR_EVENT", d.items[1])>>

DocEvents(d) ==
    <<Ev("YAML_DOCUMENT_START_EVENT", "")>> \o ContentEvents(d)
    \o <<Ev("YAML_DOCUMENT_END_EVENT", "")>>

RECURSIVE DocsEvents(_)
DocsEvents(ds) ==
    IF ds = <<>> THEN <<>> ELSE DocEvents(Head(ds)) \o DocsEvents(Tail(ds))

\* The event records the engine produces for a well-formed text.
EngineEvents(ds) ==
    <<Ev("YAML_STREAM_START_EVENT", "")>> \o DocsEvents(ds)
    \o <<Ev("YAML_STREAM_END_EVENT", "")>>

\* The bytes of the text the token of event i adds: the byte that opens a
\* document, a scalar of a collection with the delimiter before it, the
\* closing bracket.
EventWidth(E, i) ==
    CASE E[i].type = "YAML_DOCUMENT_START_EVENT" -> 1
      [] E[i].type = "YAML_SCALAR_EVENT" ->
            IF E[i - 1].type = "YAML_DOCUMENT_START_EVENT" THEN 0
            ELSE IF E[i - 1].type \in {"YAML_SEQUENCE_START_EVENT",
                                       "YAML_MAPPING_START_EVENT"} THEN 1
            ELSE 2
      [] E[i].type \in {"YAML_SEQUENCE_END_EVENT", "YAML_MAPPING_END_EVENT"} -> 1
      [] OTHER -> 0

\* The offset of the last byte of the token that decides event i.
RECURSIVE EventCore(_, _)
EventCore(E, i) == IF i = 0 THEN 0 ELSE EventCore(E, i - 1) + EventWidth(E, i)

InputBytes(ds) == EventCore(EngineEvents(ds), Len(EngineEvents(ds)))


\* The text is cut short at byte a between two documents (or before the first).
AtBoundary(E, a) ==
    \/ a = 0
    \/ \E k \in 1..Len(E) :
          E[k].type = "YAML_DOCUMENT_END_EVENT" /\ EventCore(E, k) = a

(***************************************************************************)
(* The caller's Reader (std::io::Reader): each read returns Ok(k), the     *)
(* EndOfFile error or another I/O error.  Its first reads follow a script  *)
(* chosen with the input; after the script it delivers what remains.       *)
(***************************************************************************)
ScriptEntries ==
    {[kind |-> "bytes", n |-> c] : c \in 0..MaxChunk}
    \cup {[kind |-> "error", n |-> 0]}

ReaderInit(script) == [script |-> script, delivered |-> 0, reads |-> 0]

\* The bytes the read numbered `reads + 1` delivers when it succeeds.
ReaderChunk(r, size) ==
    IF r.reads < Len(r.script)
    THEN Min(r.script[r.reads + 1].n,
             Min(InputBytes(input.docs) - r.delivered, size))
    ELSE Min(InputBytes(input.docs) - r.delivered, size)

ReaderRead(r, size) ==
    IF r.reads < Len(r.script) /\ r.script[r.reads + 1].kind = "error"
    THEN [outcome |-> [kind |-> "OtherIoError", size |-> 0],
          reader |-> [r EXCEPT !.reads = @ + 1]]
    ELSE IF InputBytes(input.docs) - r.delivered = 0
    THEN [outcome |-> [kind |-> "EndOfFile", size |-> 0],
          reader |-> [r EXCEPT !.reads = @ + 1]]
    ELSE [outcome |-> [kind |-> "Ok", size |-> ReaderChunk(r, size)],
          reader |-> [r EXCEPT !.reads = @ + 1,
                               !.delivered = @ + ReaderChunk(r, size)]]

(***************************************************************************)
(* The reader bridge, parser.rs handle_reader_cb: one read of the caller's *)
(* source, reported to the engine as (return value, *size_read).           *)
(***************************************************************************)
\* A bridge that takes the EndOfFile error for a failure like any other.
handle_read_result_eof_fails(rd, size_read) ==
    CASE rd.outcome.kind = "Ok" ->
            [ret |-> 1, size_read |-> rd.outcome.size, reader |-> rd.reader]
      [] OTHER ->
            [ret |-> 0, size_read |-> size_read, reader |-> rd.reader]

\* The match on the result of parser.reader.read(buf).
handle_read_result(rd, size_read) ==
    CASE rd.outcome.kind = "Ok" ->
            [ret |-> 1, size_read |-> rd.outcome.size, reader |-> rd.reader]
      [] rd.outcome.kind = "EndOfFile" ->
            [ret |-> 1, size_read |-> 0, reader |-> rd.reader]
      [] OTHER ->
            [ret |-> 0, size_read |-> size_read, reader |-> rd.reader]

handle_reader_cb(r, size, size_read) ==
    handle_read_result(ReaderRead(r, size), size_read)

(***************************************************************************)
(* The engine's input side.                                                *)
(***************************************************************************)
\* The size of the engine's raw input buffer: what one read request asks for.
RawBufferSize == 16384

\* The value of the engine's size_read cell before the handler writes it.
SizeUnset == 0 - 1

\* The read handler yaml_parser_set_input_string installs.
yaml_string_read_handler(e, r, size) ==
    [ret |-> 1, size_read |-> Min(size, InputBytes(input.docs) - e.avail),
     reader |-> r]

EngineInit ==
    [pos |-> 0, error |-> "YAML_NO_ERROR", stream_start_produced |-> FALSE,
     stream_end_produced |-> FALSE, avail |-> 0, eof |-> FALSE]

\* One call of handle_reader_cb as the engine saw it, with the outcome of the
\* caller's read behind it and the number of reads the call made.
CbRecord(r, outcome, got) ==
    [outcome |-> outcome, ret |-> got.ret, size_read |-> got.size_read,
     reads |-> got.reader.reads - r.reads]

\* The engine asks its read handler for bytes until `need` bytes are there or
\* the input has ended; a read of 0 bytes is the end of the input.
RECURSIVE EngineFill(_, _, _, _, _)
EngineFillStep(e, r, h, need, log, got) ==
    IF got.ret = 0
    THEN [ok |-> FALSE, eng |-> [e EXCEPT !.error = "YAML_READER_ERROR"],
          reader |-> got.reader, cbs |-> log]
    ELSE EngineFill([e EXCEPT !.avail = @ + got.size_read,
                              !.eof = (got.size_read = 0)],
                    got.reader, h, need, log)

EngineFill(e, r, h, need, log) ==
    IF e.avail >= need \/ e.eof
    THEN [ok |-> TRUE, eng |-> e, reader |-> r, cbs |-> log]
    ELSE IF h = "io"
    THEN EngineFillStep(e, r, h, need,
            Append(log, CbRecord(r, ReaderRead(r, RawBufferSize).outcome,
                                 handle_reader_cb(r, RawBufferSize, SizeUnset))),
            handle_reader_cb(r, RawBufferSize, SizeUnset))
    ELSE EngineFillStep(e, r, h, need, log,
            yaml_string_read_handler(e, r, RawBufferSize))

(***************************************************************************)
(* yaml_parser_parse: the engine's parse-one-event primitive.  The event   *)
(* record is erased first; after the end of the stream or after an error   *)
(* the engine produces no event and reports success.                       *)
(***************************************************************************)
ParseReturn(ret, event, eng, f) ==
    [ret |-> ret, event |-> event, eng |-> eng, reader |-> f.reader,
     cbs |-> f.cbs]

\* The next event, once the bytes its token needs are there (or the input
\* ended before them).
EngineProduce(e, E, i, f) ==
    IF ~f.ok THEN ParseReturn(0, NoEventRec, f.eng, f)
    ELSE IF input.fails /\ input.failAt = e.pos
            /\ input.failKind # "YAML_COMPOSER_ERROR"
    THEN ParseReturn(0, NoEventRec, [f.eng EXCEPT !.error = input.failKind], f)
    ELSE IF f.eng.avail >= EventCore(E, i)
    THEN ParseReturn(1, E[i],
            [f.eng EXCEPT !.pos = i,
                          !.stream_start_produced = TRUE,
                          !.stream_end_produced =
                              (E[i].type = "YAML_STREAM_END_EVENT")], f)
    ELSE IF AtBoundary(E, f.eng.avail)
    THEN ParseReturn(1, Ev("YAML_STREAM_END_EVENT", ""),
            [f.eng EXCEPT !.pos = Len(E), !.stream_end_produced = TRUE], f)
    ELSE ParseReturn(0, NoEventRec,
            [f.eng EXCEPT !.error = "YAML_PARSER_ERROR"], f)

yaml_parser_parse(e, r, h) ==
    IF e.stream_end_produced \/ e.error # "YAML_NO_ERROR"
    THEN [ret |-> 1, event |-> NoEventRec, eng |-> e, reader |-> r, cbs |-> <<>>]
    ELSE EngineProduce(e, EngineEvents(input.docs), e.pos + 1,
            EngineFill(e, r, h,
                EventCore(EngineEvents(input.docs), e.pos + 1) + 1, <<>>))

(***************************************************************************)
(* The error model, parser.rs YamlErrorType and YamlBaseParser::get_error. *)
(***************************************************************************)
YamlErrorType ==
    {"YamlNoError", "YamlMemoryError", "YamlReaderError", "YamlScannerError",
     "YamlParserError", "YamlComposerError", "YamlWriterError",
     "YamlEmitterError"}

\* A get_error whose arms for the scanner and the parser are exchanged.
get_error_exchanged(parser_mem) ==
    CASE parser_mem.error = "YAML_NO_ERROR" ->
            [panic |-> FALSE, kind |-> "YamlNoError"]
      [] parser_mem.error = "YAML_READER_ERROR" ->
            [panic |-> FALSE, kind |-> "YamlReaderError"]
      [] parser_mem.error = "YAML_SCANNER_ERROR" ->
            [panic |-> FALSE, kind |-> "YamlParserError"]
      [] parser_mem.error = "YAML_PARSER_ERROR" ->
            [panic |-> FALSE, kind |-> "YamlScannerError"]
      [] parser_mem.error = "YAML_COMPOSER_ERROR" ->
            [panic |-> FALSE, kind |-> "YamlComposerError"]
      [] OTHER -> [panic |-> TRUE, kind |-> "none"]

\* The match of get_error has no arm for YAML_MEMORY_ERROR: that code falls
\* to the arm `_ => fail!("unknown error type")`.
get_error(parser_mem) ==
    CASE parser_mem.error = "YAML_NO_ERROR" ->
            [panic |-> FALSE, kind |-> "YamlNoError"]
      [] parser_mem.error = "YAML_READER_ERROR" ->
            [panic |-> FALSE, kind |-> "YamlReaderError"]
      [] parser_mem.error = "YAML_SCANNER_ERROR" ->
            [panic |-> FALSE, kind |-> "YamlScannerError"]
      [] parser_mem.error = "YAML_PARSER_ERROR" ->
            [panic |-> FALSE, kind |-> "YamlParserError"]
      [] parser_mem.error = "YAML_COMPOSER_ERROR" ->
            [panic |-> FALSE, kind |-> "YamlComposerError"]
      [] parser_mem.error = "YAML_WRITER_ERROR" ->
            [panic |-> FALSE, kind |-> "YamlWriterError"]
      [] parser_mem.error = "YAML_EMITTER_ERROR" ->
            [panic |-> FALSE, kind |-> "YamlEmitterError"]
      [] OTHER -> [panic |-> TRUE, kind |-> "none"]

(***************************************************************************)
(* The event model: YamlEvent::load decodes an engine event record into an *)
(* owned YamlEvent.                                                        *)
(***************************************************************************)
YamlEvent_load(event_mem) ==
    [variant |->
        CASE event_mem.type = "YAML_NO_EVENT" -> "YamlNoEvent"
          [] event_mem.type = "YAML_STREAM_START_EVENT" -> "YamlStreamStartEvent"
          [] event_mem.type = "YAML_STREAM_END_EVENT" -> "YamlStreamEndEvent"
          [] event_mem.type = "YAML_DOCUMENT_START_EVENT" -> "YamlDocumentStartEvent"
          [] event_mem.type = "YAML_DOCUMENT_END_EVENT" -> "YamlDocumentEndEvent"
          [] event_mem.type = "YAML_ALIAS_EVENT" -> "YamlAliasEvent"
          [] event_mem.type = "YAML_SCALAR_EVENT" -> "YamlScalarEvent"
          [] event_mem.type = "YAML_SEQUENCE_START_EVENT" -> "YamlSequenceStartEvent"
          [] event_mem.type = "YAML_SEQUENCE_END_EVENT" -> "YamlSequenceEndEvent"
          [] event_mem.type = "YAML_MAPPING_START_EVENT" -> "YamlMappingStartEvent"
          [] event_mem.type = "YAML_MAPPING_END_EVENT" -> "YamlMappingEndEvent",
     value |-> event_mem.value]

NoYamlEvent == [variant |-> "none", value |-> ""]

(***************************************************************************)
(* YamlParser::parse_event: a fresh InternalEvent, one engine parse, the   *)
(* decoded event on success; the InternalEvent is dropped (and the record  *)
(* deleted) when the function returns.                                     *)
(***************************************************************************)
\* A parse_event that decodes the record whatever the engine returned.
parse_event_match_unchecked(res) ==
    [some |-> TRUE, evt |-> YamlEvent_load(res.event), eng |-> res.eng,
     reader |-> res.reader, cbs |-> res.cbs, engine_ret |-> res.ret,
     ops |-> <<"yaml_event_t::new", "yaml_parser_parse",
               "YamlEvent::load", "yaml_event_delete">>]

\* A parse_event that returns None before the record is dropped.
parse_event_match_leaks(res) ==
    IF res.ret = 0
    THEN [some |-> FALSE, evt |-> NoYamlEvent, eng |-> res.eng,
          reader |-> res.reader, cbs |-> res.cbs, engine_ret |-> res.ret,
          ops |-> <<"yaml_event_t::new", "yaml_parser_parse">>]
    ELSE [some |-> TRUE, evt |-> YamlEvent_load(res.event), eng |-> res.eng,
          reader |-> res.reader, cbs |-> res.cbs, engine_ret |-> res.ret,
          ops |-> <<"yaml_event_t::new", "yaml_parser_parse",
                    "YamlEvent::load", "yaml_event_delete">>]

\* The branch on the engine's return value.
parse_event_match(res) ==
    IF res.ret = 0
    THEN [some |-> FALSE, evt |-> NoYamlEvent, eng |-> res.eng,
          reader |-> res.reader, cbs |-> res.cbs, engine_ret |-> res.ret,
          ops |-> <<"yaml_event_t::new", "yaml_parser_parse",
                    "yaml_event_delete">>]
    ELSE [some |-> TRUE, evt |-> YamlEvent_load(res.event), eng |-> res.eng,
          reader |-> res.reader, cbs |-> res.cbs, engine_ret |-> res.ret,
          ops |-> <<"yaml_event_t::new", "yaml_parser_parse",
                    "YamlEvent::load", "yaml_event_delete">>]

\* A parse_event that asks the engine twice and decodes the second record.
parse_event_twice(e, r, h) ==
    parse_event_match(
        yaml_parser_parse(yaml_parser_parse(e, r, h).eng,
                          yaml_parser_parse(e, r, h).reader, h))

parse_event(e, r, h) == parse_event_match(yaml_parser_parse(e, r, h))

\* What a call returned: Ok(event), Ok(document), Err(error) or a panic; with
\* it, what the engine call behind it reported.
Result(tag, evt, kind, doc, call) ==
    [tag |-> tag, event |-> evt, kind |-> kind, doc |-> doc,
     engine_ret |-> call.engine_ret, engine_error |-> call.eng.error]

\* Err(get_error()), or the panic of get_error.
ErrResult(err, call) ==
    IF err.panic THEN Result("panic", NoYamlEvent, "none", 0, call)
    ELSE Result("Err", NoYamlEvent, err.kind, 0, call)

(***************************************************************************)
(* YamlEventStream::next_event.                                            *)
(***************************************************************************)
\* A next_event that, asked again after the end signal, decodes the record
\* of the call before instead of a fresh one.
next_event_match_stale(pe) ==
    [call |-> pe,
     result |->
        IF pe.some
        THEN IF /\ Len(results["byte"]) >= 2
                /\ results["byte"][Len(results["byte"])].event.variant
                      = "YamlNoEvent"
             THEN Result("Ok", results["byte"][Len(results["byte"]) - 1].event,
                         "none", 0, pe)
             ELSE Result("Ok", pe.evt, "none", 0, pe)
        ELSE ErrResult(get_error(pe.eng), pe)]

\* A next_event that returns the event without its text.
next_event_match_bare(pe) ==
    [call |-> pe,
     result |-> IF pe.some
                THEN Result("Ok", [pe.evt EXCEPT !.value = ""], "none", 0, pe)
                ELSE ErrResult(get_error(pe.eng), pe)]

next_event_match(pe) ==
    [call |-> pe,
     result |-> IF pe.some THEN Result("Ok", pe.evt, "none", 0, pe)
                ELSE ErrResult(get_error(pe.eng), pe)]

\* A next_event that, called after a failure, clears the engine's error and
\* resumes behind the token that failed.
next_event_recovering(e, r, h) ==
    IF e.error # "YAML_NO_ERROR" /\ e.pos + 1 < Len(EngineEvents(input.docs))
    THEN next_event_match(
            parse_event([e EXCEPT !.error = "YAML_NO_ERROR", !.pos = @ + 1],
                        r, h))
    ELSE next_event_match(parse_event(e, r, h))

next_event(e, r, h) == next_event_match(parse_event(e, r, h))

Handler(p) == IF p = "io" THEN "io" ELSE "string"

\* A parse() that asks the engine for the first event while it builds the
\* stream, and drops it.
parse_primes(p) ==
    /\ stream[p] = "parser"
    /\ stream' = [stream EXCEPT ![p] = "events"]
    /\ engine' = [engine EXCEPT
                     ![p] = next_event(engine[p], reader, Handler(p)).call.eng]
    /\ reader' = next_event(engine[p], reader, Handler(p)).call.reader
    /\ ops' = <<>>
    /\ cbLog' = <<>>
    /\ UNCHANGED <<input, results, documents, iters, views>>

\* YamlByteParser::init / YamlIoParser::init followed by YamlParser::parse:
\* the parser is moved into a YamlEventStream.
parse(p) ==
    /\ stream[p] = "parser"
    /\ stream' = [stream EXCEPT ![p] = "events"]
    /\ ops' = <<>>
    /\ cbLog' = <<>>
    /\ UNCHANGED <<input, reader, engine, results, documents, iters, views>>

\* The caller receives what next_event returned; a panic ends the stream.
Returned(p, ne) ==
    /\ engine' = [engine EXCEPT ![p] = ne.call.eng]
    /\ reader' = ne.call.reader
    /\ results' = [results EXCEPT ![p] = Append(@, ne.result)]
    /\ stream' = [stream EXCEPT
                     ![p] = IF ne.result.tag = "panic" THEN "events dead"
                            ELSE @]
    /\ ops' = ne.call.ops
    /\ cbLog' = ne.call.cbs

NextEvent(p) ==
    /\ stream[p] = "events"
    /\ Len(results[p]) < MaxCalls
    /\ Returned(p, next_event(engine[p], reader, Handler(p)))
    /\ UNCHANGED <<input, documents, iters, views>>

(***************************************************************************)
(* The engine's document side.  A document_mem is the yaml_document_t the  *)
(* engine fills: its node stack, and whether the stack's memory is held.   *)
(* Node pointers are indexes into the stack, the null pointer is 0.        *)
(***************************************************************************)
NullNode == 0

Node(t, v) == [type |-> t, value |-> v, items |-> <<>>]

\* The composer adds the node of one content event: the first node is the
\* root; a scalar inside a collection is pushed and its index recorded in
\* the collection's item stack (for a mapping as key, value, key, value ...).
ComposeNode(nodes, ev) ==
    CASE ev.type = "YAML_SEQUENCE_START_EVENT" ->
            Append(nodes, Node("YAML_SEQUENCE_NODE", ""))
      [] ev.type = "YAML_MAPPING_START_EVENT" ->
            Append(nodes, Node("YAML_MAPPING_NODE", ""))
      [] ev.type = "YAML_SCALAR_EVENT" ->
            IF nodes = <<>> THEN <<Node("YAML_SCALAR_NODE", ev.value)>>
            ELSE Append([nodes EXCEPT ![1].items = Append(@, Len(nodes) + 1)],
                        Node("YAML_SCALAR_NODE", ev.value))
      [] OTHER -> nodes

\* yaml_document_delete: releases the node stack and erases the struct.
yaml_document_delete(document_mem) == [nodes |-> <<>>, allocated |-> FALSE]

\* The releases of tree memory one yaml_document_delete performs.
Released(document_mem) == IF document_mem.allocated THEN 1 ELSE 0

yaml_document_get_root_node(document_mem) ==
    IF document_mem.nodes # <<>> THEN 1 ELSE NullNode

yaml_document_get_node(document_mem, index) ==
    IF index > 0 /\ index <= Len(document_mem.nodes) THEN index ELSE NullNode

LoadReturn(ret, nodes, allocated, frees, abort, pr) ==
    [ret |-> ret, document_mem |-> [nodes |-> nodes, allocated |-> allocated],
     frees |-> frees, abort |-> abort, eng |-> pr.eng, reader |-> pr.reader,
     cbs |-> pr.cbs]

\* The error exit of yaml_parser_load: the document is deleted by the engine.
LoadError(pr) == LoadReturn(0, <<>>, FALSE, 1, FALSE, pr)

WithError(pr, code) == [pr EXCEPT !.eng.error = code]

WithCbs(pr, before) == [pr EXCEPT !.cbs = before \o @]

\* yaml_parser_load_document: events are parsed and composed into nodes up
\* to the DOCUMENT-END event.
RECURSIVE EngineLoadNodes(_, _, _)
EngineLoadNodesStep(pr, h, nodes) ==
    IF pr.ret = 0 THEN LoadError(pr)
    ELSE IF pr.event.type = "YAML_DOCUMENT_END_EVENT"
    THEN LoadReturn(1, nodes, TRUE, 0, FALSE, pr)
    ELSE EngineLoadNodes(pr, h, ComposeNode(nodes, pr.event))

EngineLoadNodes(prev, h, nodes) ==
    IF input.fails /\ input.failKind = "YAML_COMPOSER_ERROR"
       /\ input.failAt = prev.eng.pos
    THEN LoadError(WithError(prev, "YAML_COMPOSER_ERROR"))
    ELSE EngineLoadNodesStep(
            WithCbs(yaml_parser_parse(prev.eng, prev.reader, h), prev.cbs),
            h, nodes)

\* The first event of the document: STREAM-END ends the load with an empty
\* document; anything but DOCUMENT-START fails the engine's assertion, which
\* aborts the process in a build with assertions and is an error return in
\* a build without them.
EngineLoadFirst(pr, h, asserts) ==
    IF pr.ret = 0 THEN LoadError(pr)
    ELSE IF pr.event.type = "YAML_STREAM_END_EVENT"
    THEN LoadReturn(1, <<>>, TRUE, 0, FALSE, pr)
    ELSE IF pr.event.type # "YAML_DOCUMENT_START_EVENT"
    THEN IF asserts THEN LoadReturn(0, <<>>, TRUE, 0, TRUE, pr)
         ELSE LoadError(pr)
    ELSE EngineLoadNodes(pr, h, <<>>)

EngineLoadStarted(pr, h, asserts) ==
    IF pr.ret = 0 THEN LoadError(pr)
    ELSE IF pr.eng.stream_end_produced
    THEN LoadReturn(1, <<>>, TRUE, 0, FALSE, pr)
    ELSE EngineLoadFirst(
            WithCbs(yaml_parser_parse(pr.eng, pr.reader, h), pr.cbs),
            h, asserts)

\* yaml_parser_load: the engine's compose-one-document primitive.  The
\* document is erased and its node stack allocated first.
yaml_parser_load(e, r, h, asserts) ==
    IF ~e.stream_start_produced
    THEN EngineLoadStarted(yaml_parser_parse(e, r, h), h, asserts)
    ELSE EngineLoadStarted(
            [ret |-> 1, event |-> NoEventRec, eng |-> e, reader |-> r,
             cbs |-> <<>>], h, asserts)

(***************************************************************************)
(* document.rs: YamlDocument.                                              *)
(***************************************************************************)
\* A YamlDocument box: its document_mem, whether the box is alive ("live"),
\* was dropped ("dropped") or was in the engine's hands when the process was
\* aborted ("aborted"), how often
\* Drop ran yaml_document_delete on it and how often the memory of its tree
\* was released.
Document(document_mem, status, deletes, frees) ==
    [document_mem |-> document_mem, status |-> status, deletes |-> deletes,
     frees |-> frees]

\* A Drop that forgets to call the engine.
YamlDocument_drop_forgets(doc) ==
    Document(doc.document_mem, "dropped", doc.deletes, doc.frees)

\* impl Drop for YamlDocument.
YamlDocument_drop(doc) ==
    Document(yaml_document_delete(doc.document_mem), "dropped",
             doc.deletes + 1, doc.frees + Released(doc.document_mem))

\* A parser_load that takes a document without nodes for a failed load.
parser_load_match_needs_root(res) ==
    IF res.ret = 0 \/ res.document_mem.nodes = <<>>
    THEN [some |-> FALSE,
          doc |-> YamlDocument_drop(
                      Document(res.document_mem, "live", 0, res.frees)),
          eng |-> res.eng, reader |-> res.reader, cbs |-> res.cbs,
          engine_ret |-> res.ret, abort |-> FALSE,
          ops |-> <<"yaml_parser_load", "yaml_document_delete">>]
    ELSE [some |-> TRUE,
          doc |-> Document(res.document_mem, "live", 0, res.frees),
          eng |-> res.eng, reader |-> res.reader, cbs |-> res.cbs,
          engine_ret |-> res.ret, abort |-> FALSE,
          ops |-> <<"yaml_parser_load">>]

\* YamlDocument::parser_load, the branch on the engine's return value: None
\* drops the box that was allocated for the document.  When the engine
\* aborted the process nothing runs after it.
parser_load_match(res) ==
    IF res.abort
    THEN [some |-> FALSE,
          doc |-> Document(res.document_mem, "aborted", 0, res.frees),
          eng |-> res.eng, reader |-> res.reader, cbs |-> res.cbs,
          engine_ret |-> res.ret, abort |-> TRUE,
          ops |-> <<"yaml_parser_load">>]
    ELSE IF res.ret = 0
    THEN [some |-> FALSE,
          doc |-> YamlDocument_drop(
                      Document(res.document_mem, "live", 0, res.frees)),
          eng |-> res.eng, reader |-> res.reader, cbs |-> res.cbs,
          engine_ret |-> res.ret, abort |-> FALSE,
          ops |-> <<"yaml_parser_load", "yaml_document_delete">>]
    ELSE [some |-> TRUE,
          doc |-> Document(res.document_mem, "live", 0, res.frees),
          eng |-> res.eng, reader |-> res.reader, cbs |-> res.cbs,
          engine_ret |-> res.ret, abort |-> FALSE,
          ops |-> <<"yaml_parser_load">>]

parser_load(e, r, h, asserts) ==
    parser_load_match(yaml_parser_load(e, r, h, asserts))

\* YamlDocumentStream::next_document; the document it returns is the one at
\* index `at` of documents.
next_document_match(pl, at) ==
    [call |-> pl,
     result |-> IF pl.abort THEN Result("abort", NoYamlEvent, "none", 0, pl)
                ELSE IF pl.some THEN Result("Ok", NoYamlEvent, "none", at, pl)
                ELSE ErrResult(get_error(pl.eng), pl)]

next_document(e, r, h, asserts, at) ==
    next_document_match(parser_load(e, r, h, asserts), at)

\* YamlParser::load: the parser is moved into a YamlDocumentStream.
load(p) ==
    /\ stream[p] = "parser"
    /\ stream' = [stream EXCEPT ![p] = "documents"]
    /\ ops' = <<>>
    /\ cbLog' = <<>>
    /\ UNCHANGED <<input, reader, engine, results, documents, iters, views>>

\* A next_document that composes every document into one yaml_document_t
\* kept with the parser: the Documents returned earlier show the new tree.
ReturnedDocument_reuses(p, nd) ==
    /\ engine' = [engine EXCEPT ![p] = nd.call.eng]
    /\ reader' = nd.call.reader
    /\ results' = [results EXCEPT ![p] = Append(@, nd.result)]
    /\ documents' = Append(
            [d \in 1..Len(documents) |->
                [documents[d] EXCEPT
                    !.document_mem = nd.call.doc.document_mem]],
            nd.call.doc)
    /\ stream' = [stream EXCEPT
                     ![p] = IF nd.result.tag \in {"panic", "abort"}
                            THEN "documents dead" ELSE @]
    /\ ops' = nd.call.ops
    /\ cbLog' = nd.call.cbs

\* The caller receives what next_document returned; a process abort keeps
\* the box (nothing is unwound), a panic or an abort ends the stream.
ReturnedDocument(p, nd) ==
    /\ engine' = [engine EXCEPT ![p] = nd.call.eng]
    /\ reader' = nd.call.reader
    /\ results' = [results EXCEPT ![p] = Append(@, nd.result)]
    /\ documents' = Append(documents, nd.call.doc)
    /\ stream' = [stream EXCEPT
                     ![p] = IF nd.result.tag \in {"panic", "abort"}
                            THEN "documents dead" ELSE @]
    /\ ops' = nd.call.ops
    /\ cbLog' = nd.call.cbs

NextDocument(p) ==
    /\ stream[p] = "documents"
    /\ Len(results[p]) < MaxDocCalls
    /\ \E asserts \in BOOLEAN :
          ReturnedDocument(p, next_document(engine[p], reader, Handler(p),
                                            asserts, Len(documents) + 1))
    /\ UNCHANGED <<input, iters, views>>

\* yaml_parser_delete: releases the engine's buffers and erases the struct;
\* documents are not the engine's to release.
yaml_parser_delete(e) == EngineInit

\* The caller discards a stream it holds: the parser inside it is dropped
\* and Drop for YamlBaseParser runs.
DropStream(p) ==
    /\ stream[p] \in {"events", "documents"}
    /\ stream' = [stream EXCEPT
                     ![p] = IF @ = "events" THEN "events dropped"
                            ELSE "documents dropped"]
    /\ engine' = [engine EXCEPT ![p] = yaml_parser_delete(@)]
    /\ ops' = <<"yaml_parser_delete">>
    /\ cbLog' = <<>>
    /\ UNCHANGED <<input, reader, results, documents, iters, views>>

\* The caller discards a Document it holds; the iterators borrowed from it
\* have ended before.
DropDocument(d) ==
    /\ documents[d].status = "live"
    /\ \A p \in Parsers : stream[p] \notin {"events dead", "documents dead"}
    /\ documents' = [documents EXCEPT ![d] = YamlDocument_drop(@)]
    /\ iters' = SelectSeq(iters, LAMBDA it : it.doc # d)
    /\ ops' = <<"yaml_document_delete">>
    /\ cbLog' = <<>>
    /\ UNCHANGED <<input, reader, stream, engine, results, views>>

(***************************************************************************)
(* document.rs: nodes and iterators.  A YamlNode is a view of one node of  *)
(* a document: its shape and the node it points to.  An iterator holds two *)
(* pointers into the item stack of its collection, counted in c_int cells  *)
(* from the start of the stack.                                            *)
(***************************************************************************)
NodeView(panic, shape, node_ptr) ==
    [panic |-> panic, shape |-> shape, node |-> node_ptr]

\* A load that takes a node it does not recognise for a scalar.
YamlDocument_load_lenient(doc, node_ptr) ==
    IF node_ptr = NullNode THEN NodeView(TRUE, "empty node", NullNode)
    ELSE CASE doc.document_mem.nodes[node_ptr].type = "YAML_SEQUENCE_NODE" ->
                NodeView(FALSE, "YamlSequenceNode", node_ptr)
           [] doc.document_mem.nodes[node_ptr].type = "YAML_MAPPING_NODE" ->
                NodeView(FALSE, "YamlMappingNode", node_ptr)
           [] OTHER -> NodeView(FALSE, "YamlScalarNode", node_ptr)

\* YamlDocument::load: the match on node.node_type.
YamlDocument_load(doc, node_ptr) ==
    IF node_ptr = NullNode THEN NodeView(TRUE, "empty node", NullNode)
    ELSE CASE doc.document_mem.nodes[node_ptr].type = "YAML_SCALAR_NODE" ->
                NodeView(FALSE, "YamlScalarNode", node_ptr)
           [] doc.document_mem.nodes[node_ptr].type = "YAML_SEQUENCE_NODE" ->
                NodeView(FALSE, "YamlSequenceNode", node_ptr)
           [] doc.document_mem.nodes[node_ptr].type = "YAML_MAPPING_NODE" ->
                NodeView(FALSE, "YamlMappingNode", node_ptr)
           [] OTHER -> NodeView(TRUE, "invalid node", node_ptr)

\* YamlDocument::get_node.
get_node(doc, index) ==
    YamlDocument_load(doc, yaml_document_get_node(doc.document_mem, index))

\* YamlDocument::is_empty.
is_empty(doc) == yaml_document_get_root_node(doc.document_mem) = NullNode

\* A root() that loads the root node without the null test.
root_unchecked(doc) ==
    [some |-> TRUE,
     node |-> YamlDocument_load(doc,
                 yaml_document_get_root_node(doc.document_mem))]

\* YamlDocument::root: None, or Some(node).
root(doc) ==
    IF yaml_document_get_root_node(doc.document_mem) = NullNode
    THEN [some |-> FALSE, node |-> NodeView(FALSE, "none", NullNode)]
    ELSE [some |-> TRUE,
          node |-> YamlDocument_load(doc,
                      yaml_document_get_root_node(doc.document_mem))]

\* YamlScalarData::get_value.
get_value(doc, view) == doc.document_mem.nodes[view.node].value

\* The item stack of the collection a view points to.
ItemStack(doc, view) == doc.document_mem.nodes[view.node].items

Iter(d, kind, view, top, ptr, yielded, nones, panicked) ==
    [doc |-> d, kind |-> kind, node |-> view.node, top |-> top, ptr |-> ptr,
     yielded |-> yielded, nones |-> nones, panicked |-> panicked]

\* A values() that hands out the cursor of an iterator already walking the
\* node instead of a cursor of its own.
values_shared(d, doc, view) ==
    IF \E k \in 1..Len(iters) : iters[k].doc = d /\ iters[k].node = view.node
    THEN LET k == CHOOSE k \in 1..Len(iters) :
                      iters[k].doc = d /\ iters[k].node = view.node
         IN  Iter(d, "seq", view, iters[k].top, iters[k].ptr, <<>>, 0, FALSE)
    ELSE Iter(d, "seq", view, Len(ItemStack(doc, view)), 0, <<>>, 0, FALSE)

\* YamlSequenceData::values: ptr at items.start, top at items.top.
values(d, doc, view) ==
    Iter(d, "seq", view, Len(ItemStack(doc, view)), 0, <<>>, 0, FALSE)

\* YamlMappingData::pairs: the same stack, read as yaml_node_pair_t entries.
pairs(d, doc, view) ==
    Iter(d, "map", view, Len(ItemStack(doc, view)), 0, <<>>, 0, FALSE)

\* What the caller sees of a node an iterator returned.
Seen(doc, view) ==
    [shape |-> view.shape, node |-> view.node,
     value |-> IF view.shape = "YamlScalarNode" THEN get_value(doc, view)
               ELSE ""]

\* A sequence iterator that goes back to the start when it signals the end.
YamlSequenceIter_next_rewinds(it, doc) ==
    IF it.ptr = it.top THEN [it EXCEPT !.nones = @ + 1, !.ptr = 0]
    ELSE [it EXCEPT
            !.ptr = @ + 1,
            !.yielded = Append(@,
                [item |-> Seen(doc, get_node(doc,
                    doc.document_mem.nodes[it.node].items[it.ptr + 1]))])]

\* A sequence iterator that ends one item early.
YamlSequenceIter_next_short(it, doc) ==
    IF it.ptr = it.top \/ it.ptr + 1 = it.top THEN [it EXCEPT !.nones = @ + 1]
    ELSE [it EXCEPT
            !.ptr = @ + 1,
            !.yielded = Append(@,
                [item |-> Seen(doc, get_node(doc,
                    doc.document_mem.nodes[it.node].items[it.ptr + 1]))])]

\* Iterator::next for YamlSequenceIter: *self.ptr is read, then ptr moves on
\* by one c_int.
YamlSequenceIter_next(it, doc) ==
    IF it.ptr = it.top THEN [it EXCEPT !.nones = @ + 1]
    ELSE IF get_node(doc, doc.document_mem.nodes[it.node].items[it.ptr + 1]).panic
    THEN [it EXCEPT !.panicked = TRUE]
    ELSE [it EXCEPT
            !.ptr = @ + 1,
            !.yielded = Append(@,
                [item |-> Seen(doc, get_node(doc,
                    doc.document_mem.nodes[it.node].items[it.ptr + 1]))])]

\* A mapping iterator that reads the key cell for the value too.
YamlMappingIter_next_key_twice(it, doc) ==
    IF it.ptr = it.top THEN [it EXCEPT !.nones = @ + 1]
    ELSE [it EXCEPT
            !.ptr = @ + 2,
            !.yielded = Append(@,
                [key |-> Seen(doc, get_node(doc,
                    doc.document_mem.nodes[it.node].items[it.ptr + 1])),
                 value |-> Seen(doc, get_node(doc,
                    doc.document_mem.nodes[it.node].items[it.ptr + 1]))])]

\* Iterator::next for YamlMappingIter: (*self.ptr).key and (*self.ptr).value
\* are read, then ptr moves on by one yaml_node_pair_t (two c_int).
YamlMappingIter_next(it, doc) ==
    IF it.ptr = it.top THEN [it EXCEPT !.nones = @ + 1]
    ELSE IF \/ get_node(doc, doc.document_mem.nodes[it.node].items[it.ptr + 1]).panic
            \/ get_node(doc, doc.document_mem.nodes[it.node].items[it.ptr + 2]).panic
    THEN [it EXCEPT !.panicked = TRUE]
    ELSE [it EXCEPT
            !.ptr = @ + 2,
            !.yielded = Append(@,
                [key |-> Seen(doc, get_node(doc,
                    doc.document_mem.nodes[it.node].items[it.ptr + 1])),
                 value |-> Seen(doc, get_node(doc,
                    doc.document_mem.nodes[it.node].items[it.ptr + 2]))])]

\* A root() that hands the root out once: asked again, it has none left.
View_once(d, doc) ==
    [doc |-> d, empty |-> is_empty(doc),
     root |-> IF \E k \in 1..Len(views) : views[k].doc = d
              THEN [some |-> FALSE, node |-> NodeView(FALSE, "none", NullNode)]
              ELSE root(doc),
     tree |-> doc.document_mem.nodes,
     walked |-> \E k \in 1..Len(iters) : iters[k].nones > 0]

\* The caller asks a Document it holds whether it is empty and for its
\* root: what is_empty() and root() returned, the tree as it was then, and
\* whether the caller had walked an iterator to its end before the call.
View(d, doc) ==
    [doc |-> d, empty |-> is_empty(doc), root |-> root(doc),
     tree |-> doc.document_mem.nodes,
     walked |-> \E k \in 1..Len(iters) : iters[k].nones > 0]

Root(d) ==
    /\ documents[d].status = "live"
    /\ Len(views) < MaxViews
    /\ views' = Append(views, View(d, documents[d]))
    /\ ops' = <<>>
    /\ cbLog' = <<>>
    /\ UNCHANGED <<input, reader, stream, engine, results, documents, iters>>

TreeUnchanged ==
    /\ ops' = <<>>
    /\ cbLog' = <<>>
    /\ UNCHANGED <<input, reader, stream, engine, results, documents, views>>

\* doc.root() is a sequence node and the caller asks it for values().
Values(d) ==
    /\ documents[d].status = "live"
    /\ Len(iters) < MaxIters
    /\ root(documents[d]).some
    /\ root(documents[d]).node.shape = "YamlSequenceNode"
    /\ iters' = Append(iters, values(d, documents[d], root(documents[d]).node))
    /\ TreeUnchanged

\* doc.root() is a mapping node and the caller asks it for pairs().
Pairs(d) ==
    /\ documents[d].status = "live"
    /\ Len(iters) < MaxIters
    /\ root(documents[d]).some
    /\ root(documents[d]).node.shape = "YamlMappingNode"
    /\ iters' = Append(iters, pairs(d, documents[d], root(documents[d]).node))
    /\ TreeUnchanged

\* The caller calls next() on an iterator; it may call again after None.
SequenceNext(k) ==
    /\ iters[k].kind = "seq"
    /\ iters[k].nones < 2
    /\ ~iters[k].panicked
    /\ iters' = [iters EXCEPT
                    ![k] = YamlSequenceIter_next(@, documents[iters[k].doc])]
    /\ TreeUnchanged

MappingNext(k) ==
    /\ iters[k].kind = "map"
    /\ iters[k].nones < 2
    /\ ~iters[k].panicked
    /\ iters' = [iters EXCEPT
                    ![k] = YamlMappingIter_next(@, documents[iters[k].doc])]
    /\ TreeUnchanged

(***************************************************************************)
(* Initial states.                                                         *)
(***************************************************************************)
Failures(ds) ==
    {NoFailure} \cup
    {[fails |-> TRUE, failAt |-> k, failKind |-> c] :
        k \in 0..(Len(EngineEvents(ds)) - 1), c \in FailKinds}

InitWith(ds, f, script) ==
    /\ input = [docs |-> ds, fails |-> f.fails, failAt |-> f.failAt,
                failKind |-> f.failKind]
    /\ reader = ReaderInit(script)
    /\ stream = [p \in Parsers |-> "parser"]
    /\ engine = [p \in Parsers |-> EngineInit]
    /\ results = [p \in Parsers |-> <<>>]
    /\ documents = <<>>
    /\ iters = <<>>
    /\ views = <<>>
    /\ ops = <<>>
    /\ cbLog = <<>>

\* Any stream of documents, any one failure of the engine, a byte parser.
Init ==
    \E ds \in Streams :
        \E f \in Failures(ds) : InitWith(ds, f, <<>>)

Next ==
    \/ parse("byte")
    \/ NextEvent("byte")
    \/ load("byte")
    \/ NextDocument("byte")
    \/ \E d \in 1..Len(documents) : DropDocument(d)
    \/ DropStream("byte")

Spec == Init /\ [][Next]_vars

\* One flow collection of any content, well formed, a byte parser.
InitFlow ==
    \E d \in FlowSeqs \cup FlowMaps : InitWith(<<d>>, NoFailure, <<>>)

NextFlow ==
    \/ parse("byte")
    \/ NextEvent("byte")

SpecFlow == InitFlow /\ [][NextFlow]_vars

\* One flow collection of any content, well formed, loaded as a document
\* and walked with iterators.
NextTree ==
    \/ load("byte")
    \/ NextDocument("byte")
    \/ \E d \in 1..Len(documents) : Values(d)
    \/ \E d \in 1..Len(documents) : Pairs(d)
    \/ \E k \in 1..Len(iters) : SequenceNext(k)
    \/ \E k \in 1..Len(iters) : MappingNext(k)

SpecTree == InitFlow /\ [][NextTree]_vars

\* Any stream of documents, well formed, loaded document by document; the
\* caller asks the Documents for their roots and walks them with iterators.
InitDoc ==
    \E ds \in SeqsUpTo(SkeletonDocs \cup SmallDocs, 1) :
        InitWith(ds, NoFailure, <<>>)

NextDoc ==
    \/ load("byte")
    \/ NextDocument("byte")
    \/ \E d \in 1..Len(documents) : Root(d)
    \/ \E d \in 1..Len(documents) : Values(d)
    \/ \E d \in 1..Len(documents) : Pairs(d)
    \/ \E k \in 1..Len(iters) : SequenceNext(k)
    \/ \E k \in 1..Len(iters) : MappingNext(k)

SpecDoc == InitDoc /\ [][NextDoc]_vars

\* The enumerators of yaml_node_type_t.
NodeTypes ==
    {"YAML_NO_NODE", "YAML_SCALAR_NODE", "YAML_SEQUENCE_NODE",
     "YAML_MAPPING_NODE"}

\* What a cell of an item stack may hold: no node, the second or the third
\* node of the stack, or an index beyond the stack.
ChildIndexes == {0, 2, 3, 4}

\* Node stacks of three nodes as load and get_node may find them, composed
\* by the engine or not: every node of any type; a root that is a
\* collection has two cells (two items, or one pair) holding any index.
NodeTrees ==
    {<<>>} \cup
    {<<[type |-> t1, value |-> "",
        items |-> IF t1 \in {"YAML_SEQUENCE_NODE", "YAML_MAPPING_NODE"}
                  THEN <<i, j>> ELSE <<>>],
       [type |-> t2, value |-> "a", items |-> <<>>],
       [type |-> t3, value |-> "b", items |-> <<>>]>> :
        t1 \in NodeTypes, t2 \in NodeTypes, t3 \in NodeTypes,
        i \in ChildIndexes, j \in ChildIndexes}

\* A Document with any of these node stacks in the caller's hands.
InitNode ==
    \E T \in NodeTrees :
        /\ input = [docs |-> <<>>, fails |-> FALSE, failAt |-> 0,
                    failKind |-> "YAML_NO_ERROR"]
        /\ reader = ReaderInit(<<>>)
        /\ stream = [p \in Parsers |->
                        IF p = "byte" THEN "documents" ELSE "parser"]
        /\ engine = [p \in Parsers |-> EngineInit]
        /\ results = [p \in Parsers |-> <<>>]
        /\ documents = <<Document([nodes |-> T, allocated |-> TRUE],
                                  "live", 0, 0)>>
        /\ iters = <<>>
        /\ views = <<>>
        /\ ops = <<>>
        /\ cbLog = <<>>

NextNode ==
    \/ \E d \in 1..Len(documents) : Root(d)
    \/ \E d \in 1..Len(documents) : Values(d)
    \/ \E d \in 1..Len(documents) : Pairs(d)
    \/ \E k \in 1..Len(iters) : SequenceNext(k)
    \/ \E k \in 1..Len(iters) : MappingNext(k)

SpecNode == InitNode /\ [][NextNode]_vars

\* At most one document, well formed, read as events by a byte parser and
\* by an io parser whose Reader follows any script.
InitIo ==
    \E ds \in SeqsUpTo(SkeletonDocs, 1) :
        \E script \in SeqsUpTo(ScriptEntries, MaxScript) :
            InitWith(ds, NoFailure, script)

NextIo ==
    \/ parse("byte")
    \/ NextEvent("byte")
    \/ parse("io")
    \/ NextEvent("io")

SpecIo == InitIo /\ [][NextIo]_vars

(***************************************************************************)
(* Claims.                                                                 *)
(***************************************************************************)
IsOk(r) == r.tag = "Ok"

\* The YamlEvent variants of a sequence of Ok results.
Variants(rs) == [i \in 1..Len(rs) |-> rs[i].event.variant]

\* The order Start -> StreamStart -> (DocumentStart -> content ->
\* DocumentEnd)* -> StreamEnd -> NoEvent, as an automaton; "bad" rejects.
OrderStep(st, v) ==
    CASE st = "start" ->
            IF v = "YamlStreamStartEvent" THEN "stream" ELSE "bad"
      [] st = "stream" ->
            IF v = "YamlDocumentStartEvent" THEN "doc"
            ELSE IF v = "YamlStreamEndEvent" THEN "end" ELSE "bad"
      [] st = "doc" ->
            IF v \in {"YamlSequenceStartEvent", "YamlSequenceEndEvent",
                      "YamlMappingStartEvent", "YamlMappingEndEvent",
                      "YamlScalarEvent", "YamlAliasEvent"} THEN "doc"
            ELSE IF v = "YamlDocumentEndEvent" THEN "stream" ELSE "bad"
      [] st \in {"end", "done"} ->
            IF v = "YamlNoEvent" THEN "done" ELSE "bad"
      [] OTHER -> "bad"

RECURSIVE OrderRun(_, _)
OrderRun(st, vs) ==
    IF vs = <<>> THEN st ELSE OrderRun(OrderStep(st, Head(vs)), Tail(vs))

\* The results before the first call that did not return Ok.
RECURSIVE OkPrefix(_)
OkPrefix(rs) ==
    IF rs = <<>> \/ ~IsOk(Head(rs)) THEN <<>>
    ELSE <<Head(rs)>> \o OkPrefix(Tail(rs))

EventStreams ==
    {p \in Parsers : stream[p] \in {"events", "events dead", "events dropped"}}

\* C1 as stated: on every event stream the Ok results of successive
\* next_event calls, taken together, follow the order StreamStart,
\* (DocumentStart, content events, DocumentEnd)*, StreamEnd, NoEvent.
C1_OrderOfAllOkResults ==
    \A p \in EventStreams :
        OrderRun("start", Variants(SelectSeq(results[p], IsOk))) # "bad"

\* C1, amended: the Ok results returned before the first call that fails
\* follow that order; after a failed call every Ok result is NoEvent, so
\* NoEvent is returned only after StreamEnd or after an Err.
C1_OrderUntilFirstErr ==
    \A p \in EventStreams :
        /\ OrderRun("start", Variants(OkPrefix(results[p]))) # "bad"
        /\ \A i \in (Len(OkPrefix(results[p])) + 1)..Len(results[p]) :
              IsOk(results[p][i]) =>
                  results[p][i].event.variant = "YamlNoEvent"

\* A stream of two documents was read to its end and NoEvent returned.
C1_Witness ==
    /\ Len(input.docs) = 2
    /\ results["byte"] # <<>>
    /\ \A i \in 1..Len(results["byte"]) : IsOk(results["byte"][i])
    /\ results["byte"][Len(results["byte"])].event.variant = "YamlNoEvent"

YEv(v, x) == [variant |-> v, value |-> x]

\* C2: for a well-formed flow sequence of n scalars every next_event call
\* returns Ok, and the events are StreamStart, DocumentStart, SequenceStart,
\* Scalar(a1), ..., Scalar(an), SequenceEnd, DocumentEnd, StreamEnd in this
\* order, followed by NoEvent only.
C2_FlowSequenceEvents ==
    LET d == input.docs[1]
        expected ==
            <<YEv("YamlStreamStartEvent", ""), YEv("YamlDocumentStartEvent", ""),
              YEv("YamlSequenceStartEvent", "")>>
            \o [i \in 1..Len(d.items) |-> YEv("YamlScalarEvent", d.items[i])]
            \o <<YEv("YamlSequenceEndEvent", ""), YEv("YamlDocumentEndEvent", ""),
                 YEv("YamlStreamEndEvent", "")>>
    IN  d.kind = "seq" =>
            \A i \in 1..Len(results["byte"]) :
                /\ results["byte"][i].tag = "Ok"
                /\ results["byte"][i].event =
                      IF i <= Len(expected) THEN expected[i]
                      ELSE YEv("YamlNoEvent", "")

\* The sequence [1, 2, 3] was read until NoEvent.
C2_Witness ==
    /\ input.docs[1] = [kind |-> "seq", items |-> <<"1", "2", "3">>]
    /\ Len(results["byte"]) = 10
    /\ results["byte"][10].event.variant = "YamlNoEvent"

\* C3: for a well-formed flow mapping of n pairs the events after
\* MappingStart are the 2n scalars key 1, value 1, ..., key n, value n in
\* source order, each key directly followed by its value, and MappingEnd
\* follows the last value.
C3_FlowMappingEvents ==
    LET d == input.docs[1]
        rs == results["byte"]
        n == Len(d.items) \div 2
    IN  d.kind = "map" =>
            /\ Len(rs) >= 3 => rs[3] = Result("Ok", YEv("YamlMappingStartEvent", ""),
                                    "none", 0, [engine_ret |-> 1,
                                        eng |-> [error |-> "YAML_NO_ERROR"]])
            /\ \A j \in 1..n :
                  /\ Len(rs) >= 3 + 2 * j - 1 =>
                        /\ rs[3 + 2 * j - 1].tag = "Ok"
                        /\ rs[3 + 2 * j - 1].event =
                              YEv("YamlScalarEvent", d.items[2 * j - 1])
                  /\ Len(rs) >= 3 + 2 * j =>
                        /\ rs[3 + 2 * j].tag = "Ok"
                        /\ rs[3 + 2 * j].event =
                              YEv("YamlScalarEvent", d.items[2 * j])
            /\ Len(rs) >= 4 + 2 * n =>
                  /\ rs[4 + 2 * n].tag = "Ok"
                  /\ rs[4 + 2 * n].event = YEv("YamlMappingEndEvent", "")

\* The mapping {a: 2, a: 1}, with equal keys, was read past MappingEnd.
C3_Witness ==
    /\ input.docs[1] = [kind |-> "map", items |-> <<"a", "2", "a", "1">>]
    /\ Len(results["byte"]) >= 8
    /\ results["byte"][8].event.variant = "YamlMappingEndEvent"

UnterminatedQuotedScalarFirst ==
    /\ input.fails
    /\ input.failAt = 1
    /\ input.failKind = "YAML_SCANNER_ERROR"

\* C4: when the first token of the input is an unterminated quoted scalar,
\* the first next_event returns Ok(StreamStart) and the second returns Err
\* with kind ScannerError.
C4_ScannerErrorAfterStreamStart ==
    UnterminatedQuotedScalarFirst =>
        \A p \in EventStreams :
            /\ Len(results[p]) >= 1 =>
                  /\ results[p][1].tag = "Ok"
                  /\ results[p][1].event.variant = "YamlStreamStartEvent"
            /\ Len(results[p]) >= 2 =>
                  /\ results[p][2].tag = "Err"
                  /\ results[p][2].kind = "YamlScannerError"

C4_Witness ==
    /\ UnterminatedQuotedScalarFirst
    /\ Len(results["byte"]) = 2

\* The kind of the closed taxonomy that names an engine error code.
KindOfCode(c) ==
    CASE c = "YAML_NO_ERROR" -> "YamlNoError"
      [] c = "YAML_MEMORY_ERROR" -> "YamlMemoryError"
      [] c = "YAML_READER_ERROR" -> "YamlReaderError"
      [] c = "YAML_SCANNER_ERROR" -> "YamlScannerError"
      [] c = "YAML_PARSER_ERROR" -> "YamlParserError"
      [] c = "YAML_COMPOSER_ERROR" -> "YamlComposerError"
      [] c = "YAML_WRITER_ERROR" -> "YamlWriterError"
      [] c = "YAML_EMITTER_ERROR" -> "YamlEmitterError"

\* C5: up to the first call that does not return Ok, next_event and
\* next_document return Err exactly when the engine call reports failure,
\* and the kind of the Error is the kind recorded by the engine, whichever
\* kind of the taxonomy that is; no failure becomes a panic.
C5_EveryEngineFailureIsAnErr ==
    \A p \in Parsers :
        \A i \in 1..Min(Len(results[p]), Len(OkPrefix(results[p])) + 1) :
            /\ (results[p][i].tag = "Err") <=> (results[p][i].engine_ret = 0)
            /\ results[p][i].engine_ret = 0 =>
                  results[p][i].kind = KindOfCode(results[p][i].engine_error)

\* The scalar node with text x at node index n, as a caller sees it.
SeenScalar(n, x) == [shape |-> "YamlScalarNode", node |-> n, value |-> x]

SequenceIters == {k \in 1..Len(iters) : iters[k].kind = "seq"}

MappingIters == {k \in 1..Len(iters) : iters[k].kind = "map"}

\* The child indexes recorded in the collection an iterator walks.
Children(it) == documents[it.doc].document_mem.nodes[it.node].items

\* C6: the root of a loaded flow sequence [a1, ..., an] is a Sequence node;
\* an iterator from values() has yielded, after j calls that returned a
\* node, the nodes at the first j child indexes recorded in the sequence,
\* which are Scalar nodes with the texts a1, ..., aj; it signals the end
\* only after n nodes and never yields more than n.
C6_ValuesYieldsChildrenInOrder ==
    /\ \A d \in 1..Len(documents) :
          (d = 1 /\ documents[d].status = "live"
             /\ input.docs[1].kind = "seq") =>
                /\ root(documents[d]).some
                /\ root(documents[d]).node.shape = "YamlSequenceNode"
    /\ \A k \in SequenceIters :
          /\ ~iters[k].panicked
          /\ Len(iters[k].yielded) <= Len(Children(iters[k]))
          /\ iters[k].nones > 0 =>
                Len(iters[k].yielded) = Len(Children(iters[k]))
          /\ Len(Children(iters[k])) = Len(input.docs[1].items)
          /\ \A i \in 1..Len(iters[k].yielded) :
                iters[k].yielded[i].item =
                    SeenScalar(Children(iters[k])[i], input.docs[1].items[i])

\* The sequence [1, 2, 3] was walked to its end.
C6_Witness ==
    /\ input.docs[1] = [kind |-> "seq", items |-> <<"1", "2", "3">>]
    /\ \E k \in SequenceIters :
          /\ iters[k].nones > 0
          /\ [i \in 1..3 |-> iters[k].yielded[i].item.value] = <<"1", "2", "3">>

\* C7: an iterator from pairs() over a loaded flow mapping
\* {k1: v1, ..., kn: vn} has yielded, after j calls that returned a pair,
\* the pairs (kj, vj) in the order of the document, each key with its own
\* value, equal keys included; it signals the end only after n pairs.
C7_PairsYieldsPairsInOrder ==
    /\ \A d \in 1..Len(documents) :
          (d = 1 /\ documents[d].status = "live"
             /\ input.docs[1].kind = "map") =>
                /\ root(documents[d]).some
                /\ root(documents[d]).node.shape = "YamlMappingNode"
    /\ \A k \in MappingIters :
          /\ ~iters[k].panicked
          /\ 2 * Len(iters[k].yielded) <= Len(Children(iters[k]))
          /\ iters[k].nones > 0 =>
                2 * Len(iters[k].yielded) = Len(Children(iters[k]))
          /\ Len(Children(iters[k])) = Len(input.docs[1].items)
          /\ \A i \in 1..Len(iters[k].yielded) :
                /\ iters[k].yielded[i].key =
                      SeenScalar(Children(iters[k])[2 * i - 1],
                                 input.docs[1].items[2 * i - 1])
                /\ iters[k].yielded[i].value =
                      SeenScalar(Children(iters[k])[2 * i],
                                 input.docs[1].items[2 * i])

\* The mapping {b: 2, b: 1}, with equal keys, was walked to its end.
C7_Witness ==
    /\ input.docs[1] = [kind |-> "map", items |-> <<"b", "2", "b", "1">>]
    /\ \E k \in MappingIters :
          /\ iters[k].nones > 0
          /\ Len(iters[k].yielded) = 2

\* What the caller can compare of a result.
Shown(r) == [tag |-> r.tag, event |-> r.event, kind |-> r.kind]

\* The Reader delivers the bytes of the input and then end-of-file: none of
\* its reads fails.
ReaderDelivers ==
    \A k \in 1..Len(reader.script) : reader.script[k].kind = "bytes"

\* C8: over the same bytes, when the Reader delivers them in any chunking,
\* the i-th next_event of the io parser returns what the i-th next_event of
\* the byte parser returns.
C8_IoParserAgreesWithByteParser ==
    ReaderDelivers =>
        \A i \in 1..Min(Len(results["byte"]), Len(results["io"])) :
            Shown(results["io"][i]) = Shown(results["byte"][i])

\* C9: every call of the bridge made one read of the caller's source and
\* reported its outcome: Ok(k) as success with count k, EndOfFile as success
\* with count 0, any other error as failure with the count left unset.
C9_BridgeReportsOneRead ==
    \A k \in 1..Len(cbLog) :
        /\ cbLog[k].reads = 1
        /\ cbLog[k].outcome.kind = "Ok" =>
              /\ cbLog[k].ret = 1
              /\ cbLog[k].size_read = cbLog[k].outcome.size
        /\ cbLog[k].outcome.kind = "EndOfFile" =>
              /\ cbLog[k].ret = 1
              /\ cbLog[k].size_read = 0
        /\ cbLog[k].outcome.kind = "OtherIoError" =>
              /\ cbLog[k].ret = 0
              /\ cbLog[k].size_read = SizeUnset

\* The first read was short and was reported with its count; a later read
\* failed, was reported as failure, and next_event returned Err.
C9_Witness ==
    /\ reader.script = <<[kind |-> "bytes", n |-> 1], [kind |-> "error", n |-> 0]>>
    /\ reader.reads = 2
    /\ Len(cbLog) = 1
    /\ cbLog[1].outcome.kind = "OtherIoError"
    /\ results["io"][Len(results["io"])].kind = "YamlReaderError"

NodeShapes == {"YamlScalarNode", "YamlSequenceNode", "YamlMappingNode"}

\* What is_empty() and root() say of one another in every call the caller
\* made: a Document is empty exactly when it has no root, root() is then
\* None and no node was loaded, and otherwise root() is a Node.
EmptyAndRootAgree ==
    \A k \in 1..Len(views) :
        /\ views[k].empty <=> (views[k].tree = <<>>)
        /\ views[k].empty =>
              /\ ~views[k].root.some
              /\ ~views[k].root.node.panic
        /\ ~views[k].empty =>
              /\ views[k].root.some
              /\ ~views[k].root.node.panic
              /\ views[k].root.node.shape \in NodeShapes

DocText(doc) ==
    [kind |-> CASE root(doc).node.shape = "YamlSequenceNode" -> "seq"
                [] root(doc).node.shape = "YamlMappingNode" -> "map"
                [] OTHER -> "scalar",
     items |-> IF root(doc).node.shape = "YamlScalarNode"
               THEN <<get_value(doc, root(doc).node)>>
               ELSE [i \in 1..Len(ItemStack(doc, root(doc).node)) |->
                       get_value(doc,
                           get_node(doc, ItemStack(doc, root(doc).node)[i]))]]

\* The calls of next_document that returned a Document the caller still holds.
HeldDocuments(p) ==
    {i \in 1..Len(results[p]) :
        /\ results[p][i].tag = "Ok"
        /\ results[p][i].doc > 0
        /\ documents[results[p][i].doc].status = "live"}

C13_NothingAfterNoEvent ==
    \A p \in EventStreams :
        \A i \in 1..Len(results[p]) :
            (IsOk(results[p][i])
               /\ results[p][i].event.variant = "YamlNoEvent") =>
                \A j \in (i + 1)..Len(results[p]) :
                    IsOk(results[p][j]) =>
                        results[p][j].event = YEv("YamlNoEvent", "")

\* [1] was read to its end and next_event called twice more.
C13_Witness ==
    /\ input.docs = <<[kind |-> "seq", items |-> <<"1">>]>>
    /\ ~input.fails
    /\ Len(results["byte"]) = 10
    /\ results["byte"][7].event.variant = "YamlStreamEndEvent"
    /\ results["byte"][8].event.variant = "YamlNoEvent"
    /\ results["byte"][10].event.variant = "YamlNoEvent"

Stride(it) == IF it.kind = "seq" THEN 1 ELSE 2

\* C15: iterators over the same collection node are independent.  A step
\* changes at most one iterator and never removes one; a step that
\* requests a fresh iterator leaves all earlier ones as they were and the
\* fresh one stands before the first child, whatever the others have
\* passed; each iterator, on its own, has yielded exactly the children
\* before its position, and when it has signalled the end these are all
\* the children of the node.
C15_IteratorsAreIndependent ==
    [][/\ Len(iters') >= Len(iters)
       /\ \A k \in 1..Len(iters) :
             iters'[k] # iters[k] =>
                /\ Len(iters') = Len(iters)
                /\ \A j \in 1..Len(iters) : j # k => iters'[j] = iters[j]
       /\ Len(iters') > Len(iters) =>
             /\ Len(iters') = Len(iters) + 1
             /\ iters'[Len(iters')].ptr = 0
             /\ iters'[Len(iters')].yielded = <<>>
             /\ iters'[Len(iters')].top = Len(Children(iters'[Len(iters')]))
       /\ \A k \in 1..Len(iters') :
             /\ iters'[k].ptr = Stride(iters'[k]) * Len(iters'[k].yielded)
             /\ \A i \in 1..Len(iters'[k].yielded) :
                   IF iters'[k].kind = "seq"
                   THEN iters'[k].yielded[i].item.node = Children(iters'[k])[i]
                   ELSE /\ iters'[k].yielded[i].key.node =
                              Children(iters'[k])[2 * i - 1]
                        /\ iters'[k].yielded[i].value.node =
                              Children(iters'[k])[2 * i]
             /\ iters'[k].nones > 0 =>
                   iters'[k].ptr = Len(Children(iters'[k]))]_vars

\* Two iterators over the same sequence of three: the first has reached
\* the end, the second, requested from the same node, has yielded only the
\* first child.
C15_Witness ==
    /\ Len(iters) = 2
    /\ iters[1].doc = iters[2].doc
    /\ iters[1].node = iters[2].node
    /\ iters[1].kind = "seq"
    /\ Len(Children(iters[1])) = 3
    /\ iters[1].nones > 0
    /\ Len(iters[1].yielded) = 3
    /\ iters[2].ptr = 1
    /\ Len(iters[2].yielded) = 1
    /\ iters[2].yielded[1] = iters[1].yielded[1]


\* The calls of next_document that returned a Document.
ReturnedDocuments(p) ==
    {i \in 1..Len(results[p]) :
        results[p][i].tag = "Ok" /\ results[p][i].doc > 0}

\* C16: a Document returned by next_document owns its tree alone.  A later
\* next_document on the stream, successful or failing, and the discarding
\* of the stream leave every Document the caller holds as it was: the same
\* tree, the same answer of is_empty() and root().  Discarding one Document
\* changes no other, a returned Document has a tree of its own that nobody
\* has released, and no two calls return the same Document.
C16_DocumentOwnsItsTree ==
    [][/\ Len(documents') >= Len(documents)
       /\ \A d \in 1..Len(documents) :
             documents[d].status = "live" =>
                \/ /\ documents'[d] = documents[d]
                   /\ is_empty(documents'[d]) = is_empty(documents[d])
                   /\ root(documents'[d]) = root(documents[d])
                \/ /\ documents'[d].status = "dropped"
                   /\ results' = results
                   /\ stream' = stream
                   /\ \A e \in 1..Len(documents) :
                         e # d => documents'[e] = documents[e]
       /\ \A p \in Parsers :
             /\ \A i \in ReturnedDocuments(p)' :
                   /\ results'[p][i].doc <= Len(documents')
                   /\ documents'[results'[p][i].doc].status = "live" =>
                         /\ documents'[results'[p][i].doc].document_mem.allocated
                         /\ documents'[results'[p][i].doc].frees = 0
             /\ \A i, j \in ReturnedDocuments(p)' :
                   i # j => results'[p][i].doc # results'[p][j].doc]_vars

\* [1] was returned, the next call failed in the second document and the
\* stream was discarded: the caller still holds the first Document and
\* reads [1] from it.
C16_Witness ==
    /\ Len(input.docs) = 2
    /\ input.docs[1] = [kind |-> "seq", items |-> <<"1">>]
    /\ stream["byte"] = "documents dropped"
    /\ Len(results["byte"]) = 2
    /\ IsOk(results["byte"][1])
    /\ results["byte"][2].tag = "Err"
    /\ documents[1].status = "live"
    /\ DocText(documents[1]) = input.docs[1]
    /\ documents[2].status = "dropped"


\* The positions of one operation in the trace of the last call.
OpsAt(name) == {i \in 1..Len(ops) : ops[i] = name}

\* The last operation was a next_event call.
AfterNextEvent == ops # <<>> /\ ops[1] = "yaml_event_t::new"

\* C17: in every next_event call one event record is made, the engine is
\* asked once, and the record is released exactly once, as the last thing
\* the call does with it; when the call returns Ok the record was decoded
\* before the release; when the engine failed and the call returns Err (or
\* get_error panics) the record was not decoded and was released all the
\* same.
C17_EventRecordReleasedOnce ==
    AfterNextEvent =>
        /\ OpsAt("yaml_event_t::new") = {1}
        /\ OpsAt("yaml_parser_parse") = {2}
        /\ OpsAt("yaml_event_delete") = {Len(ops)}
        /\ \A p \in EventStreams :
              /\ results[p] # <<>>
              /\ IF IsOk(results[p][Len(results[p])])
                 THEN /\ OpsAt("YamlEvent::load") = {3}
                      /\ Len(ops) = 4
                      /\ results[p][Len(results[p])].engine_ret = 1
                 ELSE /\ OpsAt("YamlEvent::load") = {}
                      /\ Len(ops) = 3
                      /\ results[p][Len(results[p])].engine_ret = 0

\* After two events the engine failed: next_event returned Err and the
\* record of the failed call was released without being decoded.
C17_Witness ==
    /\ AfterNextEvent
    /\ Len(results["byte"]) = 3
    /\ IsOk(results["byte"][2])
    /\ results["byte"][3].tag = "Err"
    /\ ops = <<"yaml_event_t::new", "yaml_parser_parse", "yaml_event_delete">>


\* The calls on a stream that returned Err.
ErrCalls(p) == {i \in 1..Len(results[p]) : results[p][i].tag = "Err"}

\* C18: once a call on a stream has returned Err, no later call on it
\* returns a real event or a Document: a later next_event returns the
\* empty NoEvent or fails, a later next_document fails or aborts; the
\* engine's error is the one of the first failure at every later call, so
\* the failed operation is neither retried nor skipped.
C18_ErrIsTerminal ==
    \A p \in Parsers :
        \A i \in ErrCalls(p) :
            \A j \in (i + 1)..Len(results[p]) :
                /\ results[p][j].engine_error = results[p][i].engine_error
                /\ results[p][j].doc = 0
                /\ IsOk(results[p][j]) =>
                      /\ p \in EventStreams
                      /\ results[p][j].event = YEv("YamlNoEvent", "")

\* Of [1] the scalar failed in the scanner: the stream returned three
\* events, then Err, and was called twice more.
C18_Witness ==
    /\ input.docs = <<[kind |-> "seq", items |-> <<"1">>]>>
    /\ Len(results["byte"]) = 6
    /\ ErrCalls("byte") = {4}
    /\ results["byte"][4].kind = "YamlScannerError"
    /\ results["byte"][6].tag = "Ok"
    /\ \A i \in 1..3 : IsOk(results["byte"][i])


\* The Node variant that belongs to a node type of the closed set.
ShapeOf(type) ==
    CASE type = "YAML_SCALAR_NODE" -> "YamlScalarNode"
      [] type = "YAML_SEQUENCE_NODE" -> "YamlSequenceNode"
      [] type = "YAML_MAPPING_NODE" -> "YamlMappingNode"
      [] OTHER -> "none"

\* The node stack of the document an iterator walks.
Stack(it) == documents[it.doc].document_mem.nodes

\* The child index in a cell of an item stack names a node of the closed
\* set.
Loadable(nodes, index) ==
    /\ index > 0
    /\ index <= Len(nodes)
    /\ ShapeOf(nodes[index].type) \in NodeShapes

\* A node an iterator yielded is the node its cell names, in the variant
\* of that node's type.
YieldedAs(it, seen, cell) ==
    /\ Loadable(Stack(it), Children(it)[cell])
    /\ seen.node = Children(it)[cell]
    /\ seen.shape = ShapeOf(Stack(it)[seen.node].type)

\* C19: root() and every child produced by values() or pairs() is a Node
\* of the one variant its node type names, Scalar, Sequence or Mapping.
\* A root of no such type makes root() panic; an iterator panics only at a
\* cell that names no node or a node of no such type, it never yields
\* anything for such a cell, never passes it and never signals the end
\* before it.  No call makes a Node of another variant out of such a node,
\* and none returns an Err for it.
C19_NodeIsClassifiedOrPanics ==
    /\ \A p \in Parsers : ErrCalls(p) = {}
    /\ \A k \in 1..Len(views) :
          views[k].root.some =>
             IF ShapeOf(views[k].tree[1].type) \in NodeShapes
             THEN /\ ~views[k].root.node.panic
                  /\ views[k].root.node.shape = ShapeOf(views[k].tree[1].type)
             ELSE /\ views[k].root.node.panic
                  /\ views[k].root.node.shape \notin NodeShapes
    /\ \A k \in 1..Len(iters) :
          /\ iters[k].ptr = Stride(iters[k]) * Len(iters[k].yielded)
          /\ \A i \in 1..Len(iters[k].yielded) :
                IF iters[k].kind = "seq"
                THEN YieldedAs(iters[k], iters[k].yielded[i].item, i)
                ELSE /\ YieldedAs(iters[k], iters[k].yielded[i].key, 2 * i - 1)
                     /\ YieldedAs(iters[k], iters[k].yielded[i].value, 2 * i)
          /\ iters[k].nones > 0 => iters[k].ptr = Len(Children(iters[k]))
          /\ iters[k].panicked =>
                /\ iters[k].nones = 0
                /\ iters[k].ptr < iters[k].top
                /\ \E c \in 1..Stride(iters[k]) :
                      ~Loadable(Stack(iters[k]),
                                Children(iters[k])[iters[k].ptr + c])

\* A sequence whose first cell names a mapping and whose second cell names
\* a node of type YAML_NO_NODE: the iterator yielded the mapping and
\* panicked at the second cell.
C19_Witness ==
    \E k \in 1..Len(iters) :
        /\ iters[k].kind = "seq"
        /\ iters[k].panicked
        /\ Len(iters[k].yielded) = 1
        /\ iters[k].yielded[1].item.shape = "YamlMappingNode"
        /\ Children(iters[k])[2] = 3
        /\ Stack(iters[k])[3].type = "YAML_NO_NODE"


\* The calls of next_event that returned a real event.
RealEvents(p) ==
    {i \in 1..Len(results[p]) :
        IsOk(results[p][i]) /\ results[p][i].event.variant # "YamlNoEvent"}

\* The events the engine has gone through when it has composed the first n
\* documents of the input: the start of the stream and the events of these
\* documents; the end of the stream too once a call found the input
\* exhausted.
EventsOfDocuments(n) ==
    IF n > Len(input.docs) THEN Len(EngineEvents(input.docs))
    ELSE Len(EngineEvents(SubSeq(input.docs, 1, n))) - 1

\* C20: the engine advances only when the caller asks.  A stream that was
\* built and not yet called has an engine that has read and parsed nothing;
\* a next_event call asks the engine for one event once and a next_document
\* call asks it for one document once; the engine of an event stream
\* stands behind exactly the events returned so far, the engine of a
\* document stream behind exactly the documents returned so far, or inside
\* the document at which a call failed.
C20_EngineAdvancesOnlyOnRequest ==
    /\ \A p \in Parsers :
          results[p] = <<>> => /\ engine[p] = EngineInit
                               /\ reader.reads = 0
    /\ AfterNextEvent => Cardinality(OpsAt("yaml_parser_parse")) = 1
    /\ (ops # <<>> /\ ops[1] = "yaml_parser_load") =>
          /\ OpsAt("yaml_parser_load") = {1}
          /\ OpsAt("yaml_parser_parse") = {}
    /\ \A p \in Parsers :
          /\ stream[p] \in {"events", "events dead"} =>
                engine[p].pos = Cardinality(RealEvents(p))
          /\ stream[p] \in {"documents", "documents dead"} =>
                IF \A i \in 1..Len(results[p]) : IsOk(results[p][i])
                THEN engine[p].pos =
                        IF results[p] = <<>> THEN 0
                        ELSE EventsOfDocuments(Len(results[p]))
                ELSE /\ input.fails
                     /\ engine[p].pos = input.failAt
                     /\ engine[p].pos <
                           EventsOfDocuments(Cardinality(ReturnedDocuments(p)) + 1)

\* Two events of [1, 2, 3] were asked for: the engine stands behind the
\* second of its nine events, the last call asked it once.
C20_Witness ==
    /\ input.docs = <<[kind |-> "seq", items |-> <<"1", "2", "3">>]>>
    /\ ~input.fails
    /\ stream["byte"] = "events"
    /\ Len(results["byte"]) = 2
    /\ engine["byte"].pos = 2
    /\ Len(EngineEvents(input.docs)) = 9
    /\ OpsAt("yaml_parser_parse") = {2}


\* C21: the position of every sequence and mapping iterator lies between
\* the start and the end boundary of its collection, the boundary being the
\* end of the collection's item stack.  A next() called before the boundary
\* reads one entry, returns it and moves the position on by exactly one
\* entry (one cell of a sequence, one pair of a mapping); a next() called
\* at the boundary returns the end signal and leaves the position where it
\* is, so that every later next() returns the end signal again and the
\* iterator yields nothing more.
C21_PositionWithinBounds ==
    [][\A k \in 1..Len(iters') :
          /\ iters'[k].top = Len(Children(iters'[k]))
          /\ 0 <= iters'[k].ptr
          /\ iters'[k].ptr <= iters'[k].top
          /\ iters'[k].nones > 0 => iters'[k].ptr = iters'[k].top
          /\ (k <= Len(iters) /\ iters'[k] # iters[k]) =>
                /\ iters'[k].top = iters[k].top
                /\ ~iters'[k].panicked
                /\ IF iters[k].ptr < iters[k].top
                   THEN /\ iters'[k].ptr = iters[k].ptr + Stride(iters[k])
                        /\ Len(iters'[k].yielded) = Len(iters[k].yielded) + 1
                        /\ iters'[k].nones = iters[k].nones
                        /\ iters[k].nones = 0
                   ELSE /\ iters'[k].ptr = iters[k].ptr
                        /\ iters'[k].yielded = iters[k].yielded
                        /\ iters'[k].nones = iters[k].nones + 1]_vars

\* An iterator over a mapping of two pairs has yielded both, was asked
\* twice more and signalled the end both times: it stands at the boundary.
C21_Witness ==
    \E k \in MappingIters :
        /\ iters[k].top = 4
        /\ iters[k].ptr = 4
        /\ Len(iters[k].yielded) = 2
        /\ iters[k].nones = 2

=============================================================================
